---------------------------- MODULE Spec2Model ----------------------------
(***************************************************************************)
(* A model of rih/shapplot.py: the bootstrap ensemble of shap_force runs   *)
(* that main concatenates, the per-feature consistency assertion, and the  *)
(* aggregation and axis-range rules of plot_shap_force.                    *)
(*                                                                         *)
(* Floating-point values are modelled as exact rationals extended with     *)
(* the three IEEE specials: a number is a record [n, d] with d > 0 for the *)
(* rational n/d (kept in lowest terms), and d = 0 for the specials:        *)
(* n = 1 is +inf, n = -1 is -inf and n = 0 is NaN.                         *)
(***************************************************************************)
EXTENDS Integers, Sequences, FiniteSets

\* Largest number of rows of the input frame gdf_cbsa_bg explored by Spec.
MaxRows == 2

\* Ensemble size explored by Spec (the program runs k = 50, line 108).
K == 2

\* Largest number of input rows explored by SpecSample.
MaxSampleRows == 6

\* Size of the bulk of rows in the tables that SpecPlot hands to
\* plot_shap_force; with the head and tail rows a table has up to Bulk + 4
\* rows, which is past the 51 rows at which a 98th percentile of rank
\* statistics first differs from the maximum.
Bulk == 49

---------------------------------------------------------------------------
(* Exact arithmetic standing for float64.                                  *)

Abs(a) == IF a < 0 THEN -a ELSE a

Sign(a) == IF a > 0 THEN 1 ELSE IF a < 0 THEN -1 ELSE 0

RECURSIVE Gcd(_, _)
Gcd(a, b) == IF b = 0 THEN a ELSE Gcd(b, a % b)

\* The rational a/b (b # 0) in lowest terms with a positive denominator.
Rat(a, b) ==
    LET g == Gcd(Abs(a), Abs(b))
        s == IF b < 0 THEN -1 ELSE 1
    IN  [n |-> s * (a \div g), d |-> s * (b \div g)]

NaN == [n |-> 0, d |-> 0]
PosInf == [n |-> 1, d |-> 0]
NegInf == [n |-> -1, d |-> 0]

FInt(a) == [n |-> a, d |-> 1]

IsNaN(x) == x.d = 0 /\ x.n = 0
IsInf(x) == x.d = 0 /\ x.n # 0
IsFinite(x) == x.d > 0

\* x < y and x > y as IEEE compares: false as soon as one side is NaN.
FLt(x, y) ==
    /\ ~IsNaN(x)
    /\ ~IsNaN(y)
    /\ IF x.d = 0 /\ y.d = 0 THEN x.n < y.n ELSE x.n * y.d < y.n * x.d

FGt(x, y) == FLt(y, x)

FLe(x, y) == ~IsNaN(x) /\ ~IsNaN(y) /\ ~FLt(y, x)

\* x + y.
FAdd(x, y) ==
    IF IsNaN(x) \/ IsNaN(y) THEN NaN
    ELSE IF IsInf(x) /\ IsInf(y) THEN (IF x.n = y.n THEN x ELSE NaN)
    ELSE IF IsInf(x) THEN x
    ELSE IF IsInf(y) THEN y
    ELSE Rat(x.n * y.d + y.n * x.d, x.d * y.d)

\* x / c for an integer count c > 0.
FDivInt(x, c) == IF x.d = 0 THEN x ELSE Rat(x.n, x.d * c)

\* TrueDivide with every zero divisor mapped to NaN.
TrueDivideNaN(a, b) == IF b = 0 THEN NaN ELSE Rat(a, b)

\* a / b of two finite numbers held as integers, as numpy divides floats:
\* a zero divisor gives an infinity of the sign of a, or NaN for 0 / 0, and
\* never raises.
TrueDivide(a, b) == IF b = 0 THEN [n |-> Sign(a), d |-> 0] ELSE Rat(a, b)

\* FloorDivide rounding toward zero, as C's integer division does.
TruncDivide(x, c) ==
    IF x.n < 0 THEN -((-x.n) \div (x.d * c)) ELSE x.n \div (x.d * c)

\* Python's x // c for a float x and a positive integer c: the floor of the
\* quotient, toward minus infinity.
FloorDivide(x, c) == x.n \div (x.d * c)

\* PyMax that keeps its first argument.
PyMaxFirst(a, b) == a

\* Python's builtins max(a, b) and min(a, b): b replaces a only when the
\* comparison b > a (b < a) is true, so a NaN first argument is returned.
PyMax(a, b) == IF FGt(b, a) THEN b ELSE a

PyMin(a, b) == IF FLt(b, a) THEN b ELSE a

Half == Rat(1, 2)
Quarter == Rat(1, 4)
FNeg(x) == [n |-> -x.n, d |-> x.d]


---------------------------------------------------------------------------
(* The pandas reductions the program uses, over a column held as a         *)
(* sequence of numbers.                                                    *)

Range(s) == {s[i] : i \in 1..Len(s)}

\* F(v), with v evaluated once.
Bind(v, F(_)) == CHOOSE r \in {F(x) : x \in {v}} : TRUE

DropNa(xs) == SelectSeq(xs, LAMBDA x : ~IsNaN(x))

RECURSIVE FSum(_)
FSum(xs) == IF xs = <<>> THEN FInt(0) ELSE FAdd(Head(xs), FSum(Tail(xs)))

RECURSIVE IntSum(_)
IntSum(xs) == IF xs = <<>> THEN 0 ELSE Head(xs) + IntSum(Tail(xs))

RECURSIVE GcdAll(_)
GcdAll(xs) == IF xs = <<>> THEN 0 ELSE Gcd(Abs(Head(xs)), GcdAll(Tail(xs)))

RECURSIVE LcmAll(_)
LcmAll(xs) ==
    IF xs = <<>> THEN 1
    ELSE LET l == LcmAll(Tail(xs)) IN (Head(xs) * l) \div Gcd(Head(xs), l)

\* Series.mean(): NaN entries are skipped; an empty selection gives NaN.
SeriesMean(xs) ==
    Bind(DropNa(xs), LAMBDA v :
        IF v = <<>> THEN NaN ELSE FDivInt(FSum(v), Len(v)))

\* A standard deviation is coef * sqrt(rad) with coef and rad rational, or
\* NaN.
StdNaN == [nan |-> TRUE, coef |-> FInt(0), rad |-> FInt(0)]

\* Series.std(), the sample standard deviation (ddof = 1): NaN entries are
\* skipped, fewer than two values give NaN, and so does an infinite value.
\* The values are brought to a common unit u = g / l first, x[i] = u * b[i]
\* with integers b[i], so that std = u * sqrt(var(b)).
SeriesStd(xs) ==
    Bind(DropNa(xs), LAMBDA v :
        LET c == Len(v)
        IN  IF c < 2 \/ \E i \in 1..c : IsInf(v[i]) THEN StdNaN
            ELSE LET l == LcmAll([i \in 1..c |-> v[i].d])
                     a == [i \in 1..c |-> v[i].n * (l \div v[i].d)]
                     g0 == GcdAll(a)
                     g == IF g0 = 0 THEN 1 ELSE g0
                     b == [i \in 1..c |-> a[i] \div g]
                     s1 == IntSum(b)
                     s2 == IntSum([i \in 1..c |-> b[i] * b[i]])
                 IN  [nan |-> FALSE,
                      coef |-> Rat(g, l),
                      rad |-> Rat(c * s2 - s1 * s1, c * (c - 1))])

\* mean + m * std for an integer m: base + coef * sqrt(rad), or NaN.
BandNaN == [nan |-> TRUE, base |-> FInt(0), coef |-> FInt(0), rad |-> FInt(0)]

MeanPlusStd(mean, m, std) ==
    IF IsNaN(mean) \/ std.nan THEN BandNaN
    ELSE [nan |-> FALSE,
          base |-> mean,
          coef |-> Rat(m * std.coef.n, std.coef.d),
          rad |-> std.rad]

\* Series.max() and Series.min(): NaN entries are skipped.
SeriesMax(xs) ==
    Bind(Range(DropNa(xs)), LAMBDA v :
        IF v = {} THEN NaN ELSE CHOOSE x \in v : \A y \in v : ~FGt(y, x))

SeriesMin(xs) ==
    Bind(Range(DropNa(xs)), LAMBDA v :
        IF v = {} THEN NaN ELSE CHOOSE x \in v : \A y \in v : ~FLt(y, x))

\* The number of entries of xs that are less than x, and equal to x.
CountLess(xs, x) == Cardinality({i \in 1..Len(xs) : FLt(xs[i], x)})

CountEqual(xs, x) == Cardinality({i \in 1..Len(xs) : xs[i] = x})

\* The entry of rank r (0-based) of the non-NaN values v in ascending order.
RankValue(v, r) ==
    CHOOSE x \in Range(v) : CountLess(v, x) <= r /\ r < CountLess(v, x) + CountEqual(v, x)

\* Series.quantile(pct / 100, 'higher') and (..., 'lower'): NaN entries are
\* dropped; the virtual index (c - 1) * pct / 100 into the sorted values is
\* rounded up ('higher') or down ('lower'), with no interpolation.
QuantileHigher(xs, pct) ==
    Bind(DropNa(xs), LAMBDA v :
        IF v = <<>> THEN NaN
        ELSE RankValue(v, ((Len(v) - 1) * pct + 99) \div 100))

QuantileLower(xs, pct) ==
    Bind(DropNa(xs), LAMBDA v :
        IF v = <<>> THEN NaN
        ELSE RankValue(v, ((Len(v) - 1) * pct) \div 100))

---------------------------------------------------------------------------
(* The input frame and the external collaborators of one run.              *)

\* The feature columns of X, in column order ("frac_A", "frac_B").
FEATURES == <<"A", "B">>

FeatureSet == Range(FEATURES)

\* The frame read by read_data: n block groups, row i carrying the index
\* label i, its owner-occupied total, its target value and its feature
\* fractions (in percent).  The first two rows have the same fraction of
\* feature A: distinct block groups can share a feature value.
InputFrame(n) ==
    [i \in 1..n |->
        [original_index |-> i,
         w |-> 100 * i,
         y |-> 150000 + 1000 * i,
         frac |-> [f \in FeatureSet |->
                      IF f = "A" THEN (IF i <= 2 THEN 50 ELSE 50 + i)
                      ELSE 10 * i]]]

\* What the collaborators hand back to one run: the predictions of the
\* fitted model and the explainer's baseline and attributions, per index
\* label, and the feature matrix.  The attribution of feature A is shap_A
\* and feature B is attributed the rest of the prediction plus defect, so
\* that a defect other than 0 is a decomposition that does not add up; drift
\* is what the extracted fraction of feature B differs by from the input
\* frame's.
Outcome(y_hat, expected_value, shap_A, defect, drift) ==
    [y_hat |-> y_hat, expected_value |-> expected_value, shap_A |-> shap_A,
     defect |-> defect, drift |-> drift]

\* The outcomes explored for a frame of n rows: two sound ones, a sound one
\* with predictions of exactly 0 for the first two rows, a defective
\* decomposition, and a drifting feature extraction.
Externals(n) ==
    { Outcome([i \in 1..n |-> 20000 * i], 10000, [i \in 1..n |-> 25000 - 10000 * i], 0, 0),
      Outcome([i \in 1..n |-> 20000 * i], 20000, [i \in 1..n |-> -15000 * i], 0, 0),
      Outcome([i \in 1..n |-> IF i <= 2 THEN 0 ELSE 30000], -5000,
              [i \in 1..n |-> IF i = 1 THEN 0 ELSE -10000], 0, 0),
      Outcome([i \in 1..n |-> 20000 * i], 10000, [i \in 1..n |-> 25000 - 10000 * i], 1000, 0),
      Outcome([i \in 1..n |-> 20000 * i], 10000, [i \in 1..n |-> 25000 - 10000 * i], 0, 1) }

\* xgb.predict(X) for the row with index label i.
Predict(ext, i) == ext.y_hat[i]

\* explainer.expected_value.
ExpectedValue(ext) == ext.expected_value

\* explainer.shap_values(X) for the row with index label i and feature f.
ShapValues(ext, i, f) ==
    IF f = "A" THEN ext.shap_A[i]
    ELSE ext.y_hat[i] - ext.expected_value - ext.shap_A[i] + ext.defect

\* xyw(gdf_cbsa_bg, year, group_lh_together): the feature matrix X, the
\* weights w and the target y of the sampled rows, row by row.
xyw(row, ext) ==
    [X |-> [f \in FeatureSet |->
               IF f = "B" THEN row.frac[f] + ext.drift ELSE row.frac[f]],
     w |-> row.w,
     y |-> row.y]

\* SampleSize rounding down.
SampleSizeFloor(c) == (8 * c) \div 10

\* The number of rows DataFrame.sample(frac=0.8) draws from c rows:
\* round(0.8 * c), Python's round of the float product.  0.8 * c is never
\* half-way between two integers, so this is floor(0.8 * c + 0.5).
SampleSize(c) == (8 * c + 5) \div 10

Injective(s) == \A i, j \in DOMAIN s : s[i] = s[j] => i = j

\* DataFrameSample drawing with replacement.
DataFrameSampleReplace(c) == [1..SampleSize(c) -> 1..c]

\* DataFrame.sample(frac=0.8, random_state=...) followed by reset_index: the
\* index labels of the drawn rows in drawn order; replace defaults to False,
\* so no row is drawn twice.  Which rows are drawn is the generator's choice.
DataFrameSample(c) ==
    {s \in [1..SampleSize(c) -> 1..c] : Injective(s)}

\* df_forces.sum(axis="columns") + expected_value - y (line 59), computed
\* by shap_force and never read again.
check(ext, row) ==
    IntSum([p \in 1..Len(FEATURES) |-> ShapValues(ext, row.original_index, FEATURES[p])])
        + ExpectedValue(ext) - xyw(row, ext).y

\* shap_force: the frame it returns, one record per sampled row, in sample
\* order.
shap_force(gdf, random_state, smp, ext) ==
    [p \in 1..Len(smp) |->
        LET row == gdf[smp[p]]
            i == row.original_index
            ex == xyw(row, ext)
            y_hat == Predict(ext, i)
        IN  [original_index |-> i,
             random_state |-> random_state,
             y_hat |-> y_hat,
             expected_value |-> ExpectedValue(ext),
             w |-> ex.w,
             frac |-> ex.X,
             SHAP |-> [f \in FeatureSet |-> ShapValues(ext, i, f)],
             rel_SHAP |-> [f \in FeatureSet |->
                              TrueDivide(ShapValues(ext, i, f), y_hat)]]]

\* rng.integers(np.iinfo(np.int32).max, size=(k,), dtype=np.int32) for the
\* generator seeded with 0x6A1C55E7: PCG64 seeded through SeedSequence, each
\* draw reduced to [0, 2^31 - 1) by Lemire's method.  These are the 50 values
\* of the program's run.
random_states ==
    << 1470108091, 2133868770, 454778186, 1814341820, 437024322,
       1226113387, 47638275, 11295012, 1945108229, 1750974582,
       1674196272, 880179361, 820966532, 1246261036, 762927647,
       511514585, 893130951, 389901666, 1064640975, 1279809114,
       1675471239, 1004200730, 497146875, 508577508, 470928735,
       1465472934, 563398030, 1789934201, 984749749, 1316581397,
       282177928, 556856581, 1049734544, 751502333, 36975354,
       1899374903, 1264370133, 420214155, 1782152268, 1001550824,
       1032098155, 479425698, 554629299, 304635186, 186412017,
       982329086, 156184402, 1329639085, 902119640, 1356323597 >>

RECURSIVE Concat(_)
\* pd.concat of a list of frames: the rows of every frame, in order.
Concat(fs) == IF fs = <<>> THEN <<>> ELSE Head(fs) \o Concat(Tail(fs))

---------------------------------------------------------------------------
(* plot_shap_force: aggregation per block group and the axis range.        *)

\* The columns main hands to plot_shap_force for one feature (lines
\* 138-144), before the sort.
FeatureColumns(df, feature) ==
    [p \in 1..Len(df) |->
        [original_index |-> df[p].original_index,
         frac |-> df[p].frac[feature],
         SHAP |-> df[p].SHAP[feature],
         random_state |-> df[p].random_state,
         y_hat |-> df[p].y_hat,
         w |-> df[p].w,
         rel_SHAP |-> df[p].rel_SHAP[feature]]]

\* DataFrame.sort_values("frac_<feature>"): ascending, rows of equal value
\* kept in their order.  Row p goes to the position that counts the rows
\* ordered before it.
SortValuesFrac(frame) ==
    Bind(frame, LAMBDA df :
        Bind([p \in 1..Len(df) |->
                 1 + Cardinality({q \in 1..Len(df) :
                         \/ df[q].frac < df[p].frac
                         \/ df[q].frac = df[p].frac /\ q < p})],
             LAMBDA place :
                 [r \in 1..Len(df) |-> df[CHOOSE p \in 1..Len(df) : place[p] = r]]))

\* GroupKey by feature value alone.
GroupKeyByValue(r) == <<0, 0, r.frac>>

\* The group key of a record: original_index, owner-occupied total and
\* feature value (line 229).
GroupKey(r) == <<r.original_index, r.w, r.frac>>

\* Group keys in the order of the aggregated table: groupby sorts the keys,
\* sort_values then orders the groups by feature value.
KeyBefore(a, b) ==
    \/ a[3] < b[3]
    \/ a[3] = b[3] /\ a[1] < b[1]
    \/ a[3] = b[3] /\ a[1] = b[1] /\ a[2] < b[2]

SortedKeys(keySet) ==
    Bind(keySet, LAMBDA keys :
        Bind([k \in keys |-> 1 + Cardinality({a \in keys : KeyBefore(a, k)})],
             LAMBDA place :
                 [r \in 1..Cardinality(keys) |-> CHOOSE k \in keys : place[k] = r]))

\* The column aggregated: SHAP_frac_<feature>, or rel_SHAP_frac_<feature>
\* when relative.
ForceColumn(df, relative) ==
    [p \in 1..Len(df) |-> IF relative THEN df[p].rel_SHAP ELSE FInt(df[p].SHAP)]

\* df_stats_by_original_index (lines 228-242): one row per group key with
\* the mean and std of the group's values and the band mean -+ 2 std.
GroupRow(key, values) ==
    [original_index |-> key[1],
     w |-> key[2],
     frac |-> key[3],
     mean |-> SeriesMean(values),
     std |-> SeriesStd(values),
     upper |-> MeanPlusStd(SeriesMean(values), 2, SeriesStd(values)),
     lower |-> MeanPlusStd(SeriesMean(values), -2, SeriesStd(values))]

GroupStats(frame, relative) ==
    Bind(frame, LAMBDA df :
        Bind(SortedKeys({GroupKey(df[p]) : p \in 1..Len(df)}), LAMBDA keys :
            [g \in 1..Len(keys) |->
                Bind(ForceColumn(SelectSeq(df, LAMBDA r : GroupKey(r) = keys[g]), relative),
                     LAMBDA values : GroupRow(keys[g], values))]))

MeanColumn(stats_table) == [g \in 1..Len(stats_table) |-> stats_table[g].mean]

\* (max_force // 10_000) * 10_000 + pad; NaN stays NaN.
RoundedBound(force, pad) ==
    IF IsFinite(force) THEN FInt(FloorDivide(force, 10000) * 10000 + pad) ELSE NaN

\* RangePolicy whose relative mode takes the percentile as it is, without
\* the comparison with 0.5.
RangePolicyPercentile(meanColumn, relative) ==
    Bind(meanColumn, LAMBDA means :
        LET min_force == SeriesMin(means)
            max_force == SeriesMax(means)
        IN  IF relative
            THEN LET hi == IF FGt(max_force, Half)
                           THEN QuantileHigher(means, 98)
                           ELSE max_force
                     lo == IF FLt(min_force, FNeg(Half))
                           THEN QuantileLower(means, 2)
                           ELSE min_force
                 IN  <<PyMin(lo, FNeg(Quarter)), PyMax(hi, Quarter)>>
            ELSE <<RoundedBound(min_force, -20000), RoundedBound(max_force, 20000)>>)

\* The limits handed to set_ylim (lines 234-235 and 298-307), as
\* <<min_force, max_force>>.
RangePolicy(meanColumn, relative) ==
    Bind(meanColumn, LAMBDA means :
        LET min_force == SeriesMin(means)
            max_force == SeriesMax(means)
        IN  IF relative
            THEN LET hi == IF FGt(max_force, Half)
                           THEN PyMax(Half, QuantileHigher(means, 98))
                           ELSE max_force
                     lo == IF FLt(min_force, FNeg(Half))
                           THEN PyMin(FNeg(Half), QuantileLower(means, 2))
                           ELSE min_force
                 IN  <<PyMin(lo, FNeg(Quarter)), PyMax(hi, Quarter)>>
            ELSE <<RoundedBound(min_force, -20000), RoundedBound(max_force, 20000)>>)

\* The axes of a new figure: no limits set yet.
NoLimits == [set |-> FALSE, relative |-> FALSE, lo |-> NaN, hi |-> NaN]

\* ax.set_ylim(min_force, max_force) raises ValueError for a limit that is
\* NaN or infinite.
SetYlimRaises(limits) == ~IsFinite(limits[1]) \/ ~IsFinite(limits[2])

\* plot_shap_force: the aggregated table, the limits of the axes, and
\* whether the figure was saved (the call raises before savefig when
\* set_ylim rejects the limits).
plot_shap_force(df_shap_force, relative) ==
    Bind(GroupStats(df_shap_force, relative), LAMBDA table :
        Bind(RangePolicy(MeanColumn(table), relative), LAMBDA limits :
            [stats |-> table,
             ylim |-> IF SetYlimRaises(limits) THEN NoLimits
                      ELSE [set |-> TRUE, relative |-> relative,
                            lo |-> limits[1], hi |-> limits[2]],
             saved |-> ~SetYlimRaises(limits)]))

\* same_fraction comparing the values within each run only.
same_fraction_per_run(df, feature) ==
    \A i \in {df[p].original_index : p \in 1..Len(df)} :
        \A s \in {df[p].random_state : p \in 1..Len(df)} :
            Cardinality({df[p].frac[feature] :
                p \in {q \in 1..Len(df) : df[q].original_index = i
                                          /\ df[q].random_state = s}}) <= 1

\* The value of same_fraction.all() (lines 148-151): every original_index of
\* the accumulated table has one single value of frac_<feature>.
same_fraction(df, feature) ==
    \A i \in {df[p].original_index : p \in 1..Len(df)} :
        Cardinality({df[p].frac[feature] : p \in {q \in 1..Len(df) : df[q].original_index = i}}) = 1

---------------------------------------------------------------------------
(* main.                                                                   *)

VARIABLES
    gdf_cbsa_bg,      \* the input frame
    pc,               \* where main stands
    frames,           \* the frames pd.concat has drawn from its generator
    sample,           \* the index labels sampled by the latest shap_force
    df_shap_forces,   \* the accumulated table, <<>> until it is assigned
    col,              \* position in FEATURES of the feature being processed
    calls,            \* the calls of plot_shap_force made, in order: <<feature, relative>>
    stats,            \* df_stats_by_original_index of the latest call
    ylim,             \* the y limits of the axes of the latest call
    saved,            \* the figures written: <<feature, relative>>
    err               \* the exception that ended main, or "none"

vars == <<gdf_cbsa_bg, pc, frames, sample, df_shap_forces, col, calls, stats,
          ylim, saved, err>>

\* The state after argument parsing and read_data (lines 81-112).
Init ==
    /\ \E c \in 1..MaxRows : gdf_cbsa_bg = InputFrame(c)
    /\ pc = "concat"
    /\ frames = <<>>
    /\ sample = <<>>
    /\ df_shap_forces = <<>>
    /\ col = 1
    /\ calls = <<>>
    /\ stats = <<>>
    /\ ylim = NoLimits
    /\ saved = {}
    /\ err = "none"

\* pd.concat draws the next frame from the generator (lines 114-117): one
\* call of shap_force that returns.  With the k-th frame the table is
\* assigned and the feature loop begins.
main_shap_force ==
    /\ pc = "concat"
    /\ Len(frames) < K
    /\ \E smp \in DataFrameSample(Len(gdf_cbsa_bg)), ext \in Externals(Len(gdf_cbsa_bg)) :
          LET df_forces == shap_force(gdf_cbsa_bg, random_states[Len(frames) + 1], smp, ext)
              drawn == Append(frames, df_forces)
          IN  /\ sample' = smp
              /\ frames' = drawn
              /\ IF Len(drawn) = K
                 THEN df_shap_forces' = Concat(drawn) /\ pc' = "features"
                 ELSE UNCHANGED <<df_shap_forces, pc>>
    /\ UNCHANGED <<gdf_cbsa_bg, col, calls, stats, ylim, saved, err>>

\* main_shap_force_raises with the exception swallowed: the run contributes
\* an empty frame and the ensemble goes on.
main_shap_force_skips ==
    /\ pc = "concat"
    /\ Len(frames) < K
    /\ frames' = Append(frames, <<>>)
    /\ IF Len(frames') = K
       THEN df_shap_forces' = Concat(frames') /\ pc' = "features"
       ELSE UNCHANGED <<df_shap_forces, pc>>
    /\ UNCHANGED <<gdf_cbsa_bg, sample, col, calls, stats, ylim, saved, err>>

\* A call of shap_force raises (the fit or the decomposition fails): the
\* exception leaves pd.concat and main; nothing is assigned.
main_shap_force_raises ==
    /\ pc = "concat"
    /\ Len(frames) < K
    /\ pc' = "error"
    /\ err' = "run"
    /\ UNCHANGED <<gdf_cbsa_bg, frames, sample, df_shap_forces, col, calls,
                   stats, ylim, saved>>

\* The head of one iteration of the feature loop, up to the assertion
\* (lines 130-151), when the assertion holds.
main_assert_same_fraction ==
    /\ pc = "features"
    /\ same_fraction(df_shap_forces, FEATURES[col])
    /\ pc' = "plot"
    /\ UNCHANGED <<gdf_cbsa_bg, frames, sample, df_shap_forces, col, calls,
                   stats, ylim, saved, err>>

\* The same, when the assertion fails: AssertionError ends main.
main_assert_fails ==
    /\ pc = "features"
    /\ ~same_fraction(df_shap_forces, FEATURES[col])
    /\ pc' = "error"
    /\ err' = "assert"
    /\ UNCHANGED <<gdf_cbsa_bg, frames, sample, df_shap_forces, col, calls,
                   stats, ylim, saved>>

\* df_shap_force of the iteration (line 144).
df_shap_force == SortValuesFrac(FeatureColumns(df_shap_forces, FEATURES[col]))

\* The first call of plot_shap_force of the iteration (lines 158-168).
main_plot_absolute ==
    /\ pc = "plot"
    /\ \E out \in {plot_shap_force(df_shap_force, FALSE)} :
           /\ calls' = Append(calls, <<FEATURES[col], FALSE>>)
           /\ stats' = out.stats
           /\ ylim' = out.ylim
           /\ IF out.saved
              THEN /\ saved' = saved \cup {<<FEATURES[col], FALSE>>}
                   /\ pc' = "plot_relative"
                   /\ err' = err
              ELSE /\ saved' = saved
                   /\ pc' = "error"
                   /\ err' = "ylim"
    /\ UNCHANGED <<gdf_cbsa_bg, frames, sample, df_shap_forces, col>>

\* The second call, relative=True (lines 170-182; args.add_relative is
\* always true, line 89), and the step to the next feature.
main_plot_relative ==
    /\ pc = "plot_relative"
    /\ \E out \in {plot_shap_force(df_shap_force, TRUE)} :
           /\ calls' = Append(calls, <<FEATURES[col], TRUE>>)
           /\ stats' = out.stats
           /\ ylim' = out.ylim
           /\ IF out.saved
              THEN /\ saved' = saved \cup {<<FEATURES[col], TRUE>>}
                   /\ err' = err
                   /\ IF col < Len(FEATURES)
                      THEN col' = col + 1 /\ pc' = "features"
                      ELSE col' = col /\ pc' = "done"
              ELSE /\ saved' = saved
                   /\ col' = col
                   /\ pc' = "error"
                   /\ err' = "ylim"
    /\ UNCHANGED <<gdf_cbsa_bg, frames, sample, df_shap_forces>>

Next ==
    \/ main_shap_force
    \/ main_shap_force_raises
    \/ main_assert_same_fraction
    \/ main_assert_fails
    \/ main_plot_absolute
    \/ main_plot_relative

Spec == Init /\ [][Next]_vars

---------------------------------------------------------------------------
(* One call of shap_force on input frames of up to MaxSampleRows rows.     *)

InitShapForce ==
    /\ \E c \in 1..MaxSampleRows : gdf_cbsa_bg = InputFrame(c)
    /\ pc = "call"
    /\ frames = <<>>
    /\ sample = <<>>
    /\ df_shap_forces = <<>>
    /\ col = 1
    /\ calls = <<>>
    /\ stats = <<>>
    /\ ylim = NoLimits
    /\ saved = {}
    /\ err = "none"

\* shap_force(params, gdf_cbsa_bg, ..., random_state) with the first seed.
call_shap_force ==
    /\ pc = "call"
    /\ \E smp \in DataFrameSample(Len(gdf_cbsa_bg)), ext \in Externals(Len(gdf_cbsa_bg)) :
          /\ sample' = smp
          /\ frames' = <<shap_force(gdf_cbsa_bg, random_states[1], smp, ext)>>
    /\ pc' = "returned"
    /\ UNCHANGED <<gdf_cbsa_bg, df_shap_forces, col, calls, stats, ylim, saved, err>>

SpecShapForce == InitShapForce /\ [][call_shap_force]_vars

---------------------------------------------------------------------------
(* The feature loop of main on the accumulated tables of sound runs over   *)
(* input frames large enough for the percentiles to differ from the        *)
(* extremes.                                                               *)

\* The relative attributions of feature A, in hundredths, of the block
\* groups of a frame: nLo rows at lo, nMid rows at mid and nHi rows at hi.
PlotValues(lo, nLo, mid, nMid, hi, nHi) ==
    [i \in 1..(nLo + nMid + nHi) |->
        IF i <= nLo THEN lo ELSE IF i <= nLo + nMid THEN mid ELSE hi]

\* The input frame of n block groups with distinct fractions of A.
PlotFrame(n) ==
    [i \in 1..n |->
        [original_index |-> i,
         w |-> 100 * i,
         y |-> 150000 + 1000 * i,
         frac |-> [f \in FeatureSet |-> IF f = "A" THEN i % 101 ELSE (7 * i) % 101]]]

\* The sound outcome that gives the block groups the relative attributions
\* values of feature A: predictions of 68500 and a baseline of 0.  With
\* zeroRow other than "none" one more block group has a prediction of
\* exactly 0, with attributions of 0 and 0 ("zero") or of 6850 and -6850
\* ("split").
PlotOutcome(values, zeroRow) ==
    LET n == Len(values) + (IF zeroRow = "none" THEN 0 ELSE 1)
    IN  Outcome([i \in 1..n |-> IF i > Len(values) THEN 0 ELSE 68500],
                0,
                [i \in 1..n |-> IF i > Len(values)
                                THEN (IF zeroRow = "split" THEN 6850 ELSE 0)
                                ELSE 685 * values[i]],
                0, 0)

\* The sample of run j among n rows: the first round(0.8 n) rows for odd j
\* and the last for even j, so that two runs cover the frame.
PlotSample(n, j) ==
    [p \in 1..SampleSize(n) |-> IF j % 2 = 1 THEN p ELSE n - SampleSize(n) + p]

\* The frames of the K runs.
PlotFrames(values, zeroRow) ==
    Bind(PlotOutcome(values, zeroRow), LAMBDA ext :
        [j \in 1..K |->
            shap_force(PlotFrame(Len(ext.y_hat)), random_states[j],
                       PlotSample(Len(ext.y_hat), j), ext)])

InitPlot ==
    /\ \E lo \in {-90, -60, -10}, mid \in {-20, 20}, hi \in {10, 60, 90},
          nLo \in 0..2, nMid \in {0, 1, Bulk}, nHi \in 0..2,
          zeroRow \in {"none", "zero", "split"} :
          /\ nLo + nMid + nHi + (IF zeroRow = "none" THEN 0 ELSE 1) > 0
          /\ frames = PlotFrames(PlotValues(lo, nLo, mid, nMid, hi, nHi), zeroRow)
    /\ gdf_cbsa_bg = PlotFrame(Cardinality({frames[j][p].original_index :
                                               j \in 1..K, p \in 1..Len(frames[1])}))
    /\ df_shap_forces = Concat(frames)
    /\ sample = PlotSample(Len(gdf_cbsa_bg), K)
    /\ pc = "features"
    /\ col = 1
    /\ calls = <<>>
    /\ stats = <<>>
    /\ ylim = NoLimits
    /\ saved = {}
    /\ err = "none"

NextPlot ==
    \/ main_assert_same_fraction
    \/ main_plot_absolute
    \/ main_plot_relative

SpecPlot == InitPlot /\ [][NextPlot]_vars

---------------------------------------------------------------------------
(* Properties.                                                             *)

\* Every record of every frame drawn so far.
DrawnRecords == UNION {Range(frames[i]) : i \in 1..Len(frames)}

\* The attributions of a record plus its baseline give its prediction,
\* within a relative tolerance of 1e-3.
Reconstructs(r) ==
    Abs(IntSum([p \in 1..Len(FEATURES) |-> r.SHAP[FEATURES[p]]])
            + r.expected_value - r.y_hat) * 1000 <= Abs(r.y_hat)

(* C1: a reconstruction violation is fatal.  No record of a run in which   *)
(* some sampled row's attributions plus baseline deviate from the row's    *)
(* prediction beyond the tolerance is ever handed back by shap_force or    *)
(* reaches the accumulated table.                                          *)
C1_ReconstructionViolationIsFatal ==
    /\ \A r \in DrawnRecords : Reconstructs(r)
    /\ \A p \in 1..Len(df_shap_forces) : Reconstructs(df_shap_forces[p])

\* In the accumulated table every block group has one value of the feature.
Deterministic(feature) ==
    \A p, q \in 1..Len(df_shap_forces) :
        df_shap_forces[p].original_index = df_shap_forces[q].original_index
            => df_shap_forces[p].frac[feature] = df_shap_forces[q].frac[feature]

(* C2: a determinism violation aborts aggregation.  plot_shap_force is     *)
(* only ever called for a feature whose raw value is the same in all the   *)
(* records of each original_index; main stands at or past the calls of an  *)
(* iteration only for such a feature, and it never completes when some     *)
(* feature has inconsistent values.                                        *)
C2_DeterminismViolationAborts ==
    /\ \A c \in 1..Len(calls) : Deterministic(calls[c][1])
    /\ pc \in {"plot", "plot_relative"} => Deterministic(FEATURES[col])
    /\ pc = "done" => \A f \in FeatureSet : Deterministic(f)

\* main has stopped on the assertion at a feature with inconsistent values,
\* and plot_shap_force was not called for it.
C2_Witness ==
    /\ pc = "error"
    /\ err = "assert"
    /\ ~Deterministic(FEATURES[col])
    /\ \A c \in 1..Len(calls) : calls[c][1] # FEATURES[col]

\* All k runs returned a frame of records carrying the run's seed, and the
\* accumulated table is their concatenation.
AllRunsCompleted ==
    /\ Len(frames) = K
    /\ \A i \in 1..Len(frames) :
          /\ frames[i] # <<>>
          /\ \A p \in 1..Len(frames[i]) : frames[i][p].random_state = random_states[i]
    /\ df_shap_forces = Concat(frames)

(* C3: the whole ensemble aborts if any run fails.  Aggregation and        *)
(* plotting happen only once all k runs have returned and have been        *)
(* concatenated; after a run has raised, main has ended with that error,   *)
(* no table was assigned, nothing was aggregated or plotted, and no        *)
(* further run is started.                                                 *)
C3_EnsembleAbortsOnRunFailure ==
    /\ (\/ df_shap_forces # <<>>
        \/ calls # <<>>
        \/ stats # <<>>
        \/ ylim.set
        \/ saved # {}
        \/ pc \in {"features", "plot", "plot_relative", "done"}) => AllRunsCompleted
    /\ err = "run" =>
          /\ pc = "error"
          /\ df_shap_forces = <<>>
          /\ calls = <<>>
          /\ stats = <<>>
          /\ ~ylim.set
          /\ saved = {}
          /\ ~ENABLED main_shap_force

\* A run raised after an earlier run had returned its frame.
C3_Witness == err = "run" /\ Len(frames) >= 1 /\ pc = "error"

(* C4 as stated: the sample of every run has exactly floor(0.8 * N) rows   *)
(* and holds no original row twice.                                        *)
C4_SampleSizeIsFloor ==
    pc = "returned" =>
        /\ Len(sample) = (8 * Len(gdf_cbsa_bg)) \div 10
        /\ \A p, q \in 1..Len(sample) : sample[p] = sample[q] => p = q

(* C4, amended: the sample of every run has round(0.8 * N) rows, the       *)
(* integer nearest to 0.8 * N, and holds no original row twice; the frame  *)
(* shap_force returns has one record per sampled row.                      *)
C4_SampleSizeIsRounded ==
    pc = "returned" =>
        /\ 10 * Len(sample) - 8 * Len(gdf_cbsa_bg) \in -5..5
        /\ \A p, q \in 1..Len(sample) : sample[p] = sample[q] => p = q
        /\ Len(frames[1]) = Len(sample)
        /\ \A p \in 1..Len(sample) :
              /\ sample[p] \in 1..Len(gdf_cbsa_bg)
              /\ frames[1][p].original_index = gdf_cbsa_bg[sample[p]].original_index

\* A call has returned a sample of several rows that is larger than
\* floor(0.8 * N).
C4_Witness ==
    /\ pc = "returned"
    /\ Len(sample) >= 2
    /\ Len(sample) > (8 * Len(gdf_cbsa_bg)) \div 10

(* C5 as stated: for a record whose prediction is exactly 0, the relative  *)
(* attribution of every feature is NaN, whatever the attribution.          *)
C5_ZeroPredictionGivesNaN ==
    \A r \in DrawnRecords :
        r.y_hat = 0 => \A f \in FeatureSet : IsNaN(r.rel_SHAP[f])

(* C5, amended: for a record whose prediction is exactly 0, shap_force     *)
(* returns, and the relative attribution of a feature is NaN when the      *)
(* attribution is 0 and an infinity, not NaN, when it is not.              *)
C5_ZeroPredictionGivesNaNOrInf ==
    \A r \in DrawnRecords :
        r.y_hat = 0 =>
            /\ pc = "returned"
            /\ \A f \in FeatureSet :
                  /\ r.SHAP[f] = 0 => IsNaN(r.rel_SHAP[f])
                  /\ r.SHAP[f] # 0 => IsInf(r.rel_SHAP[f]) /\ ~IsNaN(r.rel_SHAP[f])

\* A call has returned records with a prediction of 0 and attributions that
\* are zero, positive and negative.
C5_Witness ==
    /\ pc = "returned"
    /\ \E r \in DrawnRecords, f \in FeatureSet : r.y_hat = 0 /\ r.SHAP[f] = 0
    /\ \E r \in DrawnRecords, f \in FeatureSet : r.y_hat = 0 /\ r.SHAP[f] > 0
    /\ \E r \in DrawnRecords, f \in FeatureSet : r.y_hat = 0 /\ r.SHAP[f] < 0

(* C10: run identity is preserved.  No two records of the accumulated      *)
(* table share original_index and random_state, the records of different   *)
(* runs carry different values of random_state, every random_state lies in *)
(* [0, 2^31 - 1), and the table holds every record of every run.           *)
C10_RunIdentityPreserved ==
    /\ \A p, q \in 1..Len(df_shap_forces) :
          (/\ df_shap_forces[p].original_index = df_shap_forces[q].original_index
           /\ df_shap_forces[p].random_state = df_shap_forces[q].random_state) => p = q
    /\ \A i, j \in 1..Len(frames) :
          \A r \in Range(frames[i]), t \in Range(frames[j]) :
              r.random_state = t.random_state => i = j
    /\ \A r \in DrawnRecords : r.random_state \in 0..2147483646
    /\ df_shap_forces # <<>> =>
          Len(df_shap_forces) = IntSum([i \in 1..Len(frames) |-> Len(frames[i])])

\* The accumulated table holds one block group in the records of two runs.
C10_Witness ==
    \E p, q \in 1..Len(df_shap_forces) :
        /\ df_shap_forces[p].original_index = df_shap_forces[q].original_index
        /\ df_shap_forces[p].random_state # df_shap_forces[q].random_state

\* The values of one block group that the latest call of plot_shap_force
\* aggregates: its attributions of the call's feature, absolute or relative,
\* over the records of the accumulated table.
RowValues(i) ==
    LET call == calls[Len(calls)]
        records == SelectSeq(df_shap_forces, LAMBDA r : r.original_index = i)
    IN  [p \in 1..Len(records) |->
            IF call[2] THEN records[p].rel_SHAP[call[1]]
            ELSE FInt(records[p].SHAP[call[1]])]

(* C6: aggregation is per original row and loses no row.  After a call of  *)
(* plot_shap_force the aggregated table holds exactly one row for every    *)
(* original_index of the accumulated table and none for any other; its     *)
(* mean and std are those of exactly that block group's records, and its   *)
(* band is lower = mean - 2 std, upper = mean + 2 std.                     *)
C6_AggregationPerOriginalRow ==
    calls # <<>> =>
        /\ \A p \in 1..Len(df_shap_forces) :
              Cardinality({g \in 1..Len(stats) :
                  stats[g].original_index = df_shap_forces[p].original_index}) = 1
        /\ \A g \in 1..Len(stats) :
              /\ \E p \in 1..Len(df_shap_forces) :
                    /\ stats[g].original_index = df_shap_forces[p].original_index
                    /\ stats[g].w = df_shap_forces[p].w
                    /\ stats[g].frac = df_shap_forces[p].frac[calls[Len(calls)][1]]
              /\ \A values \in {RowValues(stats[g].original_index)} :
                    /\ stats[g].mean = SeriesMean(values)
                    /\ stats[g].std = SeriesStd(values)
              /\ stats[g].upper.nan = (IsNaN(stats[g].mean) \/ stats[g].std.nan)
              /\ stats[g].lower.nan = stats[g].upper.nan
              /\ ~stats[g].upper.nan =>
                    /\ stats[g].upper.base = stats[g].mean
                    /\ stats[g].lower.base = stats[g].mean
                    /\ stats[g].upper.rad = stats[g].std.rad
                    /\ stats[g].lower.rad = stats[g].std.rad
                    /\ stats[g].upper.coef = FAdd(stats[g].std.coef, stats[g].std.coef)
                    /\ stats[g].lower.coef = FNeg(stats[g].upper.coef)

\* A call has aggregated two block groups that share the feature value, each
\* from the records of several runs with different attributions.
C6_Witness ==
    /\ calls # <<>>
    /\ \E g, h \in 1..Len(stats) :
          /\ stats[g].original_index # stats[h].original_index
          /\ stats[g].frac = stats[h].frac
          /\ ~stats[g].std.nan /\ stats[g].std.rad.n > 0
          /\ ~stats[h].std.nan /\ stats[h].std.rad.n > 0
          /\ stats[g].mean # stats[h].mean

\* The means of the latest aggregated table that are not NaN.
Means == DropNa(MeanColumn(stats))

\* x is the largest (smallest) of the values ms.
IsMaxOf(x, ms) == x \in Range(ms) /\ \A i \in 1..Len(ms) : FLe(ms[i], x)

IsMinOf(x, ms) == x \in Range(ms) /\ \A i \in 1..Len(ms) : FLe(x, ms[i])

\* x is the value of rank r, counted from 0, of ms in ascending order.
IsOrderStatistic(x, ms, r) ==
    /\ x \in Range(ms)
    /\ Cardinality({i \in 1..Len(ms) : FLt(ms[i], x)}) <= r
    /\ r < Cardinality({i \in 1..Len(ms) : FLe(ms[i], x)})

\* The larger and the smaller of two finite numbers.
Larger(x, y) == IF FLt(x, y) THEN y ELSE x

Smaller(x, y) == IF FLt(y, x) THEN y ELSE x

(* C7: range policy, absolute mode.  The limits set by a call with         *)
(* relative=False are max = floor(max_mean / 10000) * 10000 + 20000 and    *)
(* min = floor(min_mean / 10000) * 10000 - 20000, the floor taken toward   *)
(* minus infinity: max - 20000 is the multiple of 10000 with               *)
(* max - 20000 <= max_mean < max - 10000, and likewise for min.  A mean    *)
(* range of [12345, 67890] gives (-10000, 80000).                          *)
C7_AbsoluteRange ==
    /\ RangePolicy(<<FInt(12345), FInt(67890)>>, FALSE) = <<FInt(-10000), FInt(80000)>>
    /\ (ylim.set /\ ~ylim.relative) =>
          \A ms \in {Means} :
              \A max_mean \in {x \in Range(ms) : IsMaxOf(x, ms)},
                 min_mean \in {x \in Range(ms) : IsMinOf(x, ms)} :
                  /\ ms # <<>>
                  /\ ylim.hi.d = 1
                  /\ (ylim.hi.n - 20000) % 10000 = 0
                  /\ FLe(FInt(ylim.hi.n - 20000), max_mean)
                  /\ FLt(max_mean, FInt(ylim.hi.n - 10000))
                  /\ ylim.lo.d = 1
                  /\ (ylim.lo.n + 20000) % 10000 = 0
                  /\ FLe(FInt(ylim.lo.n + 20000), min_mean)
                  /\ FLt(min_mean, FInt(ylim.lo.n + 30000))

\* An absolute call has set limits from a table whose smallest mean is
\* negative and whose extreme means are no multiples of 10000.
C7_Witness ==
    /\ ylim.set
    /\ ~ylim.relative
    /\ Len(stats) > 50
    /\ \E g, h \in 1..Len(stats) :
          /\ stats[g].mean.n < -10000 /\ stats[g].mean.n % 10000 # 0
          /\ stats[h].mean.n > 10000 /\ stats[h].mean.n % 10000 # 0
          /\ ylim.lo.n < -30000
          /\ ylim.hi.n > 30000

\* The relative limits of a table with means ms, the upper candidate being
\* hi98 when the largest mean exceeds 0.5 and the lower candidate lo2 when
\* the smallest mean is below -0.5.
RelativeLimits(ms, hi98, lo2) ==
    LET max_mean == CHOOSE x \in Range(ms) : IsMaxOf(x, ms)
        min_mean == CHOOSE x \in Range(ms) : IsMinOf(x, ms)
    IN  <<Smaller(IF FLt(min_mean, FNeg(Half)) THEN lo2 ELSE min_mean, FNeg(Quarter)),
          Larger(IF FGt(max_mean, Half) THEN hi98 ELSE max_mean, Quarter)>>

\* The ranks of the 98th percentile ('higher') and the 2nd ('lower') among c
\* values.
Rank98(c) == ((c - 1) * 98 + 99) \div 100

Rank2(c) == ((c - 1) * 2) \div 100

(* C8 as stated: in relative mode the upper limit is the 98th percentile   *)
(* of the means when max_mean exceeds 0.5 (max_mean otherwise), the lower  *)
(* limit the 2nd percentile when min_mean is below -0.5 (min_mean          *)
(* otherwise), and then only raised to at least 0.25 and lowered to at     *)
(* most -0.25.                                                             *)
C8_RelativeLimitsArePercentiles ==
    (ylim.set /\ ylim.relative) =>
        \A ms \in {Means} :
            \A p98 \in {x \in Range(ms) : IsOrderStatistic(x, ms, Rank98(Len(ms)))},
               p2 \in {x \in Range(ms) : IsOrderStatistic(x, ms, Rank2(Len(ms)))} :
                <<ylim.lo, ylim.hi>> = RelativeLimits(ms, p98, p2)

(* C8, amended: in relative mode, when max_mean exceeds 0.5 the upper      *)
(* limit is the larger of 0.5 and the 98th percentile of the means, and    *)
(* when min_mean is below -0.5 the lower limit is the smaller of -0.5 and  *)
(* the 2nd percentile (otherwise max_mean and min_mean); the only further  *)
(* adjustment raises the upper limit to at least 0.25 and lowers the lower *)
(* limit to at most -0.25.  The percentiles are order statistics of the    *)
(* means that are not NaN, of rank ceil(0.98 (c - 1)) and                  *)
(* floor(0.02 (c - 1)).                                                    *)
C8_RelativeLimitsAreClampedPercentiles ==
    (ylim.set /\ ylim.relative) =>
        \A ms \in {Means} :
            /\ ms # <<>>
            /\ \A p98 \in {x \in Range(ms) : IsOrderStatistic(x, ms, Rank98(Len(ms)))},
                  p2 \in {x \in Range(ms) : IsOrderStatistic(x, ms, Rank2(Len(ms)))} :
                   <<ylim.lo, ylim.hi>> =
                       RelativeLimits(ms, Larger(Half, p98), Smaller(FNeg(Half), p2))

\* A relative call has set an upper limit of 0.5 from a table whose largest
\* mean exceeds 0.5 and whose 98th percentile lies below 0.5.
C8_Witness ==
    /\ ylim.set
    /\ ylim.relative
    /\ ylim.hi = Half
    /\ \E g \in 1..Len(stats) : FGt(stats[g].mean, Half)
    /\ \E x \in Range(Means) :
          IsOrderStatistic(x, Means, Rank98(Len(Means))) /\ FLt(x, Half)

(* C9: range policy, minimum dynamic range.  The limits set by a call with *)
(* relative=True satisfy max >= 0.25 and min <= -0.25, and they are        *)
(* exactly (-0.25, 0.25) when all the means lie within [-0.25, 0.25], as   *)
(* for a mean range of [-0.1, 0.1].                                        *)
C9_MinimumDynamicRange ==
    /\ RangePolicy(<<Rat(-1, 10), Rat(1, 10)>>, TRUE) = <<FNeg(Quarter), Quarter>>
    /\ (ylim.set /\ ylim.relative) =>
          /\ FLe(Quarter, ylim.hi)
          /\ FLe(ylim.lo, FNeg(Quarter))
          /\ (\A x \in Range(Means) : FLe(FNeg(Quarter), x) /\ FLe(x, Quarter))
                => ylim.lo = FNeg(Quarter) /\ ylim.hi = Quarter

\* A relative call has set the limits (-0.25, 0.25) from a table of more
\* than fifty means, not all equal, that all lie within [-0.25, 0.25].
C9_Witness ==
    /\ ylim.set
    /\ ylim.relative
    /\ ylim.lo = FNeg(Quarter)
    /\ ylim.hi = Quarter
    /\ Len(Means) > 50
    /\ \A x \in Range(Means) : FLe(FNeg(Quarter), x) /\ FLe(x, Quarter)
    /\ \E x, y \in Range(Means) : FLt(x, FInt(0)) /\ FGt(y, FInt(0))

===========================================================================
